---- MODULE Spec2Model ----
(***************************************************************************)
(* Model of clickup/mdload.py: the Markdown checklist parser               *)
(* (clean_text, TOP_RE, SUB_RE, parse_markdown) and the importer (main,    *)
(* cu_create_task, cu_set_status), with clickup/config.py's CLOSED_STATUS. *)
(*                                                                         *)
(* A Python str is a sequence of one-character strings.                    *)
(***************************************************************************)
EXTENDS Integers, Sequences, FiniteSets, TLC

VARIABLES
    src,        \* the lines of the Markdown file, without their line ends
    md,         \* the text read from the file (main: md = f.read())
    blocks,     \* parse_markdown's result
    pc,         \* position of the run
    s,          \* clean_text's argument
    once,       \* clean_text(s)
    twice,      \* clean_text(clean_text(s))
    args,       \* main's parsed command line
    env,        \* the setting CLICKUP_CLOSED_STATUS
    loc,        \* main's locals: loop position and the ids it holds
    ret,        \* what the last create_task / set_status call gave back
    calls,      \* the requests sent to the task service, in order
    out,        \* lines printed on standard output
    err,        \* warnings written to standard error
    next_id,    \* the task service's next task id
    exitcode    \* the process's exit status, -1 while it runs

parsevars == <<src, md, blocks>>

cleanvars == <<s, once, twice>>

mainvars == <<args, env, loc, ret, calls, out, err, next_id, exitcode>>

vars == <<src, md, blocks, pc, s, once, twice,
          args, env, loc, ret, calls, out, err, next_id, exitcode>>

----------------------------------------------------------------------------
(* Bounds *)

MaxLines == 4       \* lines of a parsed document
MaxStr == 5         \* characters of a string given to clean_text
MaxDocLines == 4    \* lines of an imported document

----------------------------------------------------------------------------
(* Python str helpers *)

\* str.isspace() / the regex class \s, on the characters the inputs use
IsSpace(c) == c \in {" ", "\t", "\n", "\r"}

Min(S) == CHOOSE x \in S : \A y \in S : x <= y

Max(S) == CHOOSE x \in S : \A y \in S : x >= y

\* first index >= i of t that holds no whitespace, Len(t) + 1 when none does
SkipSpace(t, i) ==
    LET stops == {j \in i..Len(t) : ~IsSpace(t[j])}
    IN  IF stops = {} THEN Len(t) + 1 ELSE Min(stops)

\* str.rstrip()
rstrip(t) ==
    LET keep == {j \in 1..Len(t) : ~IsSpace(t[j])}
    IN  IF keep = {} THEN <<>> ELSE SubSeq(t, 1, Max(keep))

\* str.strip()
strip(t) ==
    LET keep == {j \in 1..Len(t) : ~IsSpace(t[j])}
    IN  IF keep = {} THEN <<>> ELSE SubSeq(t, Min(keep), Max(keep))

\* str.startswith("  ")
startswith2(t) == Len(t) >= 2 /\ t[1] = " " /\ t[2] = " "

\* str.lower() of one character of the marker class ( |x|X)
lower(c) == IF c = "X" THEN "x" ELSE c

\* str.splitlines(): "\n", "\r" and "\r\n" each end a line; no empty last line
RECURSIVE splitfrom(_, _, _)
splitfrom(t, i, cur) ==
    IF i > Len(t) THEN (IF cur = <<>> THEN <<>> ELSE <<cur>>)
    ELSE IF t[i] = "\r" /\ i < Len(t) /\ t[i + 1] = "\n"
         THEN <<cur>> \o splitfrom(t, i + 2, <<>>)
    ELSE IF t[i] \in {"\n", "\r"}
         THEN <<cur>> \o splitfrom(t, i + 1, <<>>)
    ELSE splitfrom(t, i + 1, Append(cur, t[i]))

splitlines(t) == splitfrom(t, 1, <<>>)

----------------------------------------------------------------------------
(* clean_text *)

\* re.sub(r"^\*+|\*+$", "", t): the leading run of asterisks goes, then the
\* run that ends the string
StripStars(t) ==
    LET notstar == {j \in 1..Len(t) : t[j] # "*"}
    IN  IF notstar = {} THEN <<>> ELSE SubSeq(t, Min(notstar), Max(notstar))

\* re.sub(r"\s{2,}", " ", t): a maximal run of two or more whitespace
\* characters becomes one space; a single whitespace character stays
RECURSIVE CollapseFrom(_, _)
CollapseFrom(t, i) ==
    IF i > Len(t) THEN <<>>
    ELSE IF IsSpace(t[i])
         THEN LET e == SkipSpace(t, i)
              IN  (IF e - i >= 2 THEN <<" ">> ELSE <<t[i]>>) \o CollapseFrom(t, e)
    ELSE <<t[i]>> \o CollapseFrom(t, i + 1)

Collapse(t) == CollapseFrom(t, 1)

clean_text(t) == Collapse(StripStars(strip(t)))

----------------------------------------------------------------------------
(* TOP_RE, SUB_RE *)

NoMatch == [matched |-> FALSE, mark |-> "", text |-> <<>>]

\* r"^\s{n,}-\s*\[( |x|X)\]\s*(.+?)\s*$" matched at the start of line:
\* group 1 is the marker, group 2 the text.  \s* before the lazy group
\* gives a character back when only whitespace follows the bracket.
CheckboxRE(line, n) ==
    LET d == SkipSpace(line, 1)
        b == SkipSpace(line, d + 1)
        r == SubSeq(line, b + 3, Len(line))
        ink == {j \in 1..Len(r) : ~IsSpace(r[j])}
    IN  IF /\ d <= Len(line)
           /\ d - 1 >= n
           /\ line[d] = "-"
           /\ b + 2 <= Len(line)
           /\ line[b] = "["
           /\ line[b + 1] \in {" ", "x", "X"}
           /\ line[b + 2] = "]"
           /\ r # <<>>
        THEN [matched |-> TRUE,
              mark |-> line[b + 1],
              text |-> IF ink = {} THEN <<r[Len(r)]>>
                       ELSE SubSeq(r, Min(ink), Max(ink))]
        ELSE NoMatch

TOP_RE(line) == CheckboxRE(line, 0)

SUB_RE(line) == CheckboxRE(line, 2)

----------------------------------------------------------------------------
(* parse_markdown *)

\* IsTop without the test of the two leading spaces
IsTop_AnyIndent(line) == TOP_RE(line).matched

\* m_top and not line.startswith("  ")
IsTop(line) == TOP_RE(line).matched /\ ~startswith2(line)

\* Checked without .lower()
Checked_CaseSensitive(mark) == mark = "x"

\* checked = m_sub.group(1).lower() == "x"
Checked(mark) == lower(mark) = "x"

\* the loop's state before the first line: blocks = [], current = None
\* (current is the index in blocks of the dict it refers to, 0 for None)
ParseStart == [blocks |-> <<>>, current |-> 0]

\* current = {"category": ..., "items": []}; blocks.append(current)
NewBlock(st, line) ==
    [blocks |-> Append(st.blocks,
                       [category |-> clean_text(TOP_RE(line).text), items |-> <<>>]),
     current |-> Len(st.blocks) + 1]

\* AddItem opening a block of its own for an item met before any category
AddItem_Orphan(st, line) ==
    LET m == SUB_RE(line)
        it == [text |-> clean_text(m.text), checked |-> lower(m.mark) = "x"]
    IN  IF ~m.matched THEN st
        ELSE IF st.current = 0
             THEN [blocks |-> Append(st.blocks, [category |-> <<>>, items |-> <<it>>]),
                   current |-> Len(st.blocks) + 1]
        ELSE [st EXCEPT !.blocks[st.current].items = Append(@, it)]

\* if m_sub and current: current["items"].append((clean_text(...), checked))
AddItem(st, line) ==
    LET m == SUB_RE(line)
    IN  IF m.matched /\ st.current # 0
        THEN [st EXCEPT !.blocks[st.current].items =
                 Append(@, [text |-> clean_text(m.text), checked |-> Checked(m.mark)])]
        ELSE st

\* ParseLine with a blank line closing the current block
ParseLine_BlankCloses(st, raw) ==
    LET line == rstrip(raw)
    IN  IF line = <<>> THEN [st EXCEPT !.current = 0]
        ELSE IF TOP_RE(line).matched /\ ~startswith2(line) THEN NewBlock(st, line)
        ELSE AddItem(st, line)

\* the loop body, for one raw line
ParseLine(st, raw) ==
    LET line == rstrip(raw)
    IN  IF line = <<>> THEN st
        ELSE IF IsTop(line) THEN NewBlock(st, line)
        ELSE AddItem(st, line)

RECURSIVE ParseLines(_, _, _)
ParseLines(st, ls, i) ==
    IF i > Len(ls) THEN st ELSE ParseLines(ParseLine(st, ls[i]), ls, i + 1)

parse_markdown(t) == ParseLines(ParseStart, splitlines(t), 1).blocks

----------------------------------------------------------------------------
(* Input documents *)

\* line shapes of the parsed documents
Catalogue ==
    { <<"-", " ", "[", " ", "]", " ", "A">>,                  \* "- [ ] A"
      <<"\t", "\t", "-", "[", "X", "]", "*", "B", "*">>,      \* two tabs, "-[X]*B*"
      <<" ", " ", "-", " ", "[", "x", "]", " ", "a">>,        \* "  - [x] a"
      <<" ", " ", " ", "-", "[", "X", "]", "b", " ", " ", "c", " ">>,
                                                              \* "   -[X]b  c "
      <<" ", " ", "-", " ", "[", " ", "]", " ", "d">>,        \* "  - [ ] d"
      <<>>,                                                   \* blank
      <<" ", " ", "-", " ", "[", "y", "]", " ", "e">>,        \* "  - [y] e"
      <<"-", " ", "[", "x", "]", " ">> }                      \* "- [x] ", no text

Docs(L, n) == UNION {[1..k -> L] : k \in 0..n}

\* the file's text: every line followed by a line end
RECURSIVE JoinLines(_, _)
JoinLines(ls, eol) ==
    IF ls = <<>> THEN <<>> ELSE ls[1] \o eol \o JoinLines(Tail(ls), eol)

LineEnds == {<<"\n">>, <<"\r", "\n">>}

----------------------------------------------------------------------------
(* Values of the importer *)

\* parent=None, and the id of a task that was not created
None == [kind |-> "none", n |-> 0, name |-> <<>>]

\* the id r.json()["id"] of the n-th task the service created
SrvId(n) == [kind |-> "srv", n |-> n, name |-> <<>>]

\* f"DRY::{name}"
DryId(name) == [kind |-> "dry", n |-> 0, name |-> name]

\* truth value of a str | None
Truthy(id) == id.kind # "none"

NoRet == [raised |-> FALSE, id |-> None]

NoLoc == [bi |-> 0, ii |-> 0, root_parent_id |-> None, parent_id |-> None,
          sub_id |-> None]

NoArgs == [dry_run |-> FALSE, root_parent |-> <<>>, prefix |-> <<>>]

NoEnv == [set |-> FALSE, value |-> <<>>]

\* CLOSED_STATUS = settings.CLICKUP_CLOSED_STATUS or ""
CLOSED_STATUS == IF env.set /\ env.value # <<>> THEN env.value ELSE <<>>

MainIdle ==
    /\ args = NoArgs /\ env = NoEnv /\ loc = NoLoc /\ ret = NoRet
    /\ calls = <<>> /\ out = <<>> /\ err = <<>> /\ next_id = 1 /\ exitcode = -1

CleanIdle == s = <<>> /\ once = <<>> /\ twice = <<>>

ParseIdle == src = <<>> /\ md = <<>> /\ blocks = <<>>

----------------------------------------------------------------------------
(* SpecParse: parse_markdown applied to the bounded documents *)

InitParse ==
    /\ src \in Docs(Catalogue, MaxLines)
    /\ \E eol \in LineEnds : md = JoinLines(src, eol)
    /\ blocks = <<>>
    /\ pc = "read"
    /\ CleanIdle
    /\ MainIdle

ParseMarkdown ==
    /\ pc = "read"
    /\ blocks' = parse_markdown(md)
    /\ pc' = "parsed"
    /\ UNCHANGED <<src, md, cleanvars, mainvars>>

NextParse == ParseMarkdown

SpecParse == InitParse /\ [][NextParse]_vars

----------------------------------------------------------------------------
(* SpecClean: clean_text applied to the bounded strings, then to its result *)

CleanChars == {" ", "\t", "*", "a"}

InitClean ==
    /\ s \in UNION {[1..k -> CleanChars] : k \in 0..MaxStr}
    /\ once = <<>>
    /\ twice = <<>>
    /\ pc = "clean"
    /\ ParseIdle
    /\ MainIdle

CleanOnce ==
    /\ pc = "clean"
    /\ once' = clean_text(s)
    /\ pc' = "cleaned"
    /\ UNCHANGED <<s, twice, parsevars, mainvars>>

CleanTwice ==
    /\ pc = "cleaned"
    /\ twice' = clean_text(once)
    /\ pc' = "recleaned"
    /\ UNCHANGED <<s, once, parsevars, mainvars>>

NextClean == CleanOnce \/ CleanTwice

SpecClean == InitClean /\ [][NextClean]_vars

----------------------------------------------------------------------------
(* Spec: the importer, main() *)

\* line shapes of the imported documents
ImportLines ==
    { <<"-", " ", "[", " ", "]", " ", "A">>,                  \* "- [ ] A"
      <<"-", " ", "[", "x", "]", " ", "B">>,                  \* "- [x] B"
      <<" ", " ", "-", " ", "[", "x", "]", " ", "a">>,        \* "  - [x] a"
      <<" ", " ", "-", " ", "[", " ", "]", " ", "b">> }       \* "  - [ ] b"

ArgsSet ==
    [dry_run : BOOLEAN, root_parent : {<<>>, <<"R">>}, prefix : {<<>>, <<"P", "-">>}]

EnvSet == {NoEnv, [set |-> TRUE, value |-> <<>>],
           [set |-> TRUE, value |-> <<"d", "o", "n", "e">>]}

\* what the task service answers to POST /list/{id}/task: a task id, or a
\* failure that requests.post or raise_for_status raises
CreateAnswers == {"ok", "raised"}

\* what the task service answers to PUT /task/{id}: a status below 300, a
\* status of 300 or more, or a failure that requests.put raises
StatusAnswers == {"ok", "http_error", "raised"}

Init ==
    /\ src \in Docs(ImportLines, MaxDocLines)
    /\ md = JoinLines(src, <<"\n">>)
    /\ blocks = <<>>
    /\ pc = "main"
    /\ args \in ArgsSet
    /\ env \in EnvSet
    /\ loc = NoLoc
    /\ ret = NoRet
    /\ calls = <<>>
    /\ out = <<>>
    /\ err = <<>>
    /\ next_id = 1
    /\ exitcode = -1
    /\ CleanIdle

\* payload["parent"] = parent only if parent
Payload(name, description, parent) ==
    [name |-> name, description |-> description,
     parent |-> IF Truthy(parent) THEN parent ELSE None]

\* cu_create_task: the POST is sent; the service's id comes back, or the
\* failure is raised
cu_create_task(name, description, parent, for) ==
    \E answer \in CreateAnswers :
        /\ calls' = Append(calls,
               [op |-> "create", for |-> for, answer |-> answer,
                payload |-> Payload(name, description, parent),
                id |-> IF answer = "ok" THEN SrvId(next_id) ELSE None,
                task |-> None, status |-> <<>>])
        /\ IF answer = "ok"
           THEN ret' = [raised |-> FALSE, id |-> SrvId(next_id)] /\ next_id' = next_id + 1
           ELSE ret' = [raised |-> TRUE, id |-> None] /\ UNCHANGED next_id

\* main.create_task
create_task(name, description, parent, for) ==
    IF args.dry_run
    THEN /\ out' = Append(out, [line |-> "DRY create task", name |-> name,
                                 parent |-> parent, status |-> <<>>])
         /\ ret' = [raised |-> FALSE, id |-> DryId(name)]
         /\ UNCHANGED <<calls, next_id>>
    ELSE /\ cu_create_task(name, description, parent, for)
         /\ UNCHANGED out

\* cu_set_status: nothing for an empty status; else the PUT is sent, a
\* status of 300 or more is a warning, a failure of the request is raised
cu_set_status(task_id, status, for) ==
    IF status = <<>>
    THEN ret' = NoRet /\ UNCHANGED <<calls, err>>
    ELSE \E answer \in StatusAnswers :
            /\ calls' = Append(calls,
                   [op |-> "status", for |-> for, answer |-> answer,
                    payload |-> Payload(<<>>, "", None),
                    id |-> None, task |-> task_id, status |-> status])
            /\ err' = IF answer = "http_error"
                      THEN Append(err, [warn |-> "Could not set status",
                                        status |-> status, task |-> task_id])
                      ELSE err
            /\ ret' = [raised |-> answer = "raised", id |-> None]

\* main.set_status without the dry-run branch
set_status_NoDry(task_id, status, for) ==
    /\ cu_set_status(task_id, status, for)
    /\ UNCHANGED out

\* main.set_status
set_status(task_id, status, for) ==
    IF args.dry_run
    THEN /\ out' = Append(out, [line |-> "DRY set status", name |-> <<>>,
                                 parent |-> task_id, status |-> status])
         /\ ret' = NoRet
         /\ UNCHANGED <<calls, err>>
    ELSE /\ cu_set_status(task_id, status, for)
         /\ UNCHANGED out

\* an exception leaves main: traceback, exit status 1
Raise ==
    /\ pc' = "raised"
    /\ exitcode' = 1
    /\ UNCHANGED loc

\* the loop position after item ii of block bi: its next item, else the
\* next block, else the end of the loops
AfterItem(bi, ii) ==
    IF ii < Len(blocks[bi].items) THEN [at |-> "item", bi |-> bi, ii |-> ii + 1]
    ELSE IF bi < Len(blocks) THEN [at |-> "block", bi |-> bi + 1, ii |-> 0]
    ELSE [at |-> "finish", bi |-> bi, ii |-> ii]

\* MainParse without the test of the empty result
MainParse_NoCheck ==
    /\ pc = "main"
    /\ blocks' = parse_markdown(md)
    /\ pc' = "root"
    /\ UNCHANGED <<src, md, cleanvars, mainvars>>

\* md = f.read(); blocks = parse_markdown(md); if not blocks: raise SystemExit(msg)
MainParse ==
    /\ pc = "main"
    /\ blocks' = parse_markdown(md)
    /\ IF blocks' = <<>>
       THEN pc' = "exit" /\ exitcode' = 1
       ELSE pc' = "root" /\ UNCHANGED exitcode
    /\ UNCHANGED <<src, md, cleanvars, args, env, loc, ret, calls, out, err, next_id>>

\* root_parent_id = None; if args.root_parent: root_parent_id = create_task(...)
CreateRoot ==
    /\ pc = "root"
    /\ IF args.root_parent # <<>>
       THEN /\ create_task(args.root_parent, "Auto-created parent for imported checklist.",
                           None, <<0, 0>>)
            /\ IF ret'.raised THEN Raise
               ELSE /\ loc' = [loc EXCEPT !.root_parent_id = ret'.id, !.bi = 1]
                    /\ pc' = "block"
                    /\ UNCHANGED exitcode
       ELSE /\ loc' = [loc EXCEPT !.root_parent_id = None, !.bi = 1]
            /\ pc' = "block"
            /\ UNCHANGED <<ret, calls, out, next_id, exitcode>>
    /\ UNCHANGED <<parsevars, cleanvars, args, env, err>>

\* the parent given to a category task: parent=root_parent_id
CategoryParent == loc.root_parent_id

\* for block in blocks: parent_id = create_task(prefix + category, desc,
\* parent=root_parent_id)
CreateCategory ==
    /\ pc = "block"
    /\ LET block == blocks[loc.bi]
       IN  /\ create_task(args.prefix \o block.category, "Generated from the file.",
                          CategoryParent, <<loc.bi, 0>>)
           /\ IF ret'.raised THEN Raise
              ELSE /\ UNCHANGED exitcode
                   /\ LET nxt == AfterItem(loc.bi, 0)
                      IN  /\ loc' = [loc EXCEPT !.parent_id = ret'.id,
                                                !.bi = nxt.bi, !.ii = nxt.ii]
                          /\ pc' = nxt.at
    /\ UNCHANGED <<parsevars, cleanvars, args, env, err>>

\* NeedsStatus without the test of is_checked
NeedsStatus_Unchecked(item) == CLOSED_STATUS # <<>>

\* if is_checked and CLOSED_STATUS
NeedsStatus(item) == item.checked /\ CLOSED_STATUS # <<>>

\* ItemParent with the root parent's id for the category's
ItemParent_Root == loc.root_parent_id

\* the parent given to a subtask: parent=parent_id
ItemParent == loc.parent_id

\* for item_text, is_checked in block["items"]: sub_id = create_task(item_text,
\* parent=parent_id)
CreateItem ==
    /\ pc = "item"
    /\ LET item == blocks[loc.bi].items[loc.ii]
       IN  /\ create_task(item.text, "", ItemParent, <<loc.bi, loc.ii>>)
           /\ IF ret'.raised THEN Raise
              ELSE /\ UNCHANGED exitcode
                   /\ IF NeedsStatus(item)
                      THEN /\ loc' = [loc EXCEPT !.sub_id = ret'.id]
                           /\ pc' = "status"
                      ELSE LET nxt == AfterItem(loc.bi, loc.ii)
                           IN  /\ loc' = [loc EXCEPT !.sub_id = ret'.id,
                                                     !.bi = nxt.bi, !.ii = nxt.ii]
                               /\ pc' = nxt.at
    /\ UNCHANGED <<parsevars, cleanvars, args, env, err>>

\* set_status(sub_id, CLOSED_STATUS)
SetStatus ==
    /\ pc = "status"
    /\ set_status(loc.sub_id, CLOSED_STATUS, <<loc.bi, loc.ii>>)
    /\ IF ret'.raised THEN Raise
       ELSE /\ UNCHANGED exitcode
            /\ LET nxt == AfterItem(loc.bi, loc.ii)
               IN  /\ loc' = [loc EXCEPT !.bi = nxt.bi, !.ii = nxt.ii]
                   /\ pc' = nxt.at
    /\ UNCHANGED <<parsevars, cleanvars, args, env, next_id>>

\* print("Done."); return 0
Finish ==
    /\ pc = "finish"
    /\ out' = Append(out, [line |-> "Done.", name |-> <<>>, parent |-> None,
                           status |-> <<>>])
    /\ pc' = "done"
    /\ exitcode' = 0
    /\ UNCHANGED <<parsevars, cleanvars, args, env, loc, ret, calls, err, next_id>>

Next ==
    \/ MainParse
    \/ CreateRoot
    \/ CreateCategory
    \/ CreateItem
    \/ SetStatus
    \/ Finish

Spec == Init /\ [][Next]_vars

----------------------------------------------------------------------------
(* The source lines, read as the specification describes them *)

\* optional whitespace, a dash, [ ] / [x] / [X], then text
HasCheckbox(line) ==
    \E d \in 1..Len(line) :
        /\ line[d] = "-"
        /\ \A j \in 1..(d - 1) : IsSpace(line[j])
        /\ \E b \in (d + 1)..(Len(line) - 2) :
            /\ line[b] = "["
            /\ \A j \in (d + 1)..(b - 1) : IsSpace(line[j])
            /\ line[b + 1] \in {" ", "x", "X"}
            /\ line[b + 2] = "]"
            /\ \E j \in (b + 3)..Len(line) : ~IsSpace(line[j])

TwoLeadingSpaces(line) == Len(line) >= 2 /\ line[1] = " " /\ line[2] = " "

TopLines == {i \in 1..Len(src) : HasCheckbox(src[i]) /\ ~TwoLeadingSpaces(src[i])}

SubLines == {i \in 1..Len(src) : HasCheckbox(src[i]) /\ TwoLeadingSpaces(src[i])}

\* the k-th smallest element of S
Nth(S, k) == CHOOSE x \in S : Cardinality({y \in S : y < x}) = k - 1

\* of the sub-item lines S, those between the k-th line of T and the next
Between(T, S, k) ==
    LET from == Nth(T, k)
        upto == IF k < Cardinality(T) THEN Nth(T, k + 1) ELSE Len(src) + 1
    IN  {i \in S : from < i /\ i < upto}

\* what follows the first "]" of a line
AfterBox(line) ==
    LET close == Min({j \in 1..Len(line) : line[j] = "]"})
    IN  SubSeq(line, close + 1, Len(line))

\* the character between the first "[" of a line and a "]" right after it,
\* "" when the line has no such pair
InBox(line) ==
    LET open == {j \in 1..Len(line) : line[j] = "["}
    IN  IF open # {} /\ Min(open) + 2 <= Len(line) /\ line[Min(open) + 2] = "]"
        THEN line[Min(open) + 1] ELSE ""

\* src without the lines whose index is in I
RECURSIVE SrcWithout(_, _)
SrcWithout(I, i) ==
    IF i > Len(src) THEN <<>>
    ELSE (IF i \in I THEN <<>> ELSE <<src[i]>>) \o SrcWithout(I, i + 1)

\* of the sub-item lines S, those that no top-level line of T precedes
Orphans(T, S) == {i \in S : \A j \in T : i < j}

----------------------------------------------------------------------------
(* Claims on parse_markdown, under SpecParse *)

\* C1: every item of the result lies in the block of the nearest top-level
\* line before its source line, once, the items of a block in the order of
\* their lines; blank and unmatched lines between sub-item lines neither
\* end nor split the block.
C1_ItemsInNearestBlock ==
    pc = "parsed" =>
        LET T == TopLines
            S == SubLines
        IN  /\ Len(blocks) = Cardinality(T)
            /\ \A k \in 1..Len(blocks) :
                LET mine == Between(T, S, k)
                IN  /\ Len(blocks[k].items) = Cardinality(mine)
                    /\ \A j \in 1..Len(blocks[k].items) :
                        blocks[k].items[j].text =
                            clean_text(AfterBox(src[Nth(mine, j)]))

\* two sub-item lines of one block with a blank or an unmatched line between
\* them, parsed
C1_Witness ==
    /\ pc = "parsed"
    /\ Len(src) = 4
    /\ 1 \in TopLines
    /\ 2 \in SubLines /\ 4 \in SubLines
    /\ src[2] # src[4]
    /\ src[3] = <<>> \/ InBox(src[3]) = "y"
    /\ Len(blocks) = 1 /\ Len(blocks[1].items) = 2

\* C2: there are as many blocks as lines that match the checkbox pattern
\* and do not begin with two spaces, and the blocks are in the order of
\* those lines.
C2_BlocksAreTopLines ==
    pc = "parsed" =>
        LET T == TopLines
        IN  /\ Len(blocks) = Cardinality(T)
            /\ \A k \in 1..Len(blocks) :
                blocks[k].category = clean_text(AfterBox(src[Nth(T, k)]))

\* two top-level lines of different titles, a sub-item line and a checkbox
\* without text among the lines, parsed
C2_Witness ==
    /\ pc = "parsed"
    /\ Cardinality(TopLines) = 2
    /\ SubLines # {}
    /\ \E i \in 1..Len(src) : InBox(src[i]) = "x" /\ ~HasCheckbox(src[i])
    /\ Len(blocks) = 2
    /\ blocks[1].category # blocks[2].category

\* C4: a kept item is checked exactly when x or X stands in the brackets of
\* its line and unchecked exactly when a space does; a line with another
\* character in the brackets adds no block and no item.
C4_CheckedIsMarker ==
    pc = "parsed" =>
        LET T == TopLines
            S == SubLines
        IN  /\ \A k \in 1..Len(blocks) :
                LET mine == Between(T, S, k)
                IN  \A j \in 1..Len(blocks[k].items) :
                        LET mark == InBox(src[Nth(mine, j)])
                        IN  /\ blocks[k].items[j].checked <=> mark \in {"x", "X"}
                            /\ ~blocks[k].items[j].checked <=> mark = " "
            /\ \A i \in 1..Len(src) :
                InBox(src[i]) \notin {"", " ", "x", "X"} =>
                    blocks = parse_markdown(JoinLines(SrcWithout({i}, 1), <<"\n">>))

\* a block with a checked and an unchecked item, an X sub-item line and a
\* [y] line, parsed
C4_Witness ==
    /\ pc = "parsed"
    /\ \E i \in 1..Len(src) : InBox(src[i]) = "y"
    /\ \E i \in SubLines : InBox(src[i]) = "X"
    /\ \E k \in 1..Len(blocks) :
        /\ \E j \in 1..Len(blocks[k].items) : blocks[k].items[j].checked
        /\ \E j \in 1..Len(blocks[k].items) : ~blocks[k].items[j].checked

\* C5: a sub-item line before any top-level line is dropped: parsing ends
\* with the result of the text without that line, so it opens no block and
\* is no item of a later one.
C5_OrphanDropped ==
    pc = "parsed" =>
        LET T == TopLines
            O == Orphans(T, SubLines)
        IN  /\ T = {} => blocks = <<>>
            /\ O # {} =>
                blocks = parse_markdown(JoinLines(SrcWithout(O, 1), <<"\n">>))

\* a sub-item line, then a top-level line and another sub-item line, parsed
C5_Witness ==
    /\ pc = "parsed"
    /\ Orphans(TopLines, SubLines) # {}
    /\ TopLines # {}
    /\ SubLines \ Orphans(TopLines, SubLines) # {}
    /\ Len(blocks) = 1
    /\ Len(blocks[1].items) = 1

----------------------------------------------------------------------------
(* Claim on clean_text, under SpecClean *)

\* C3: cleaning is idempotent: clean_text(clean_text(s)) = clean_text(s).
C3_CleanIdempotent == pc = "recleaned" => twice = once

----------------------------------------------------------------------------
(* Claims on the importer, under Spec *)

IsCreate(c) == c.op = "create"

IsStatus(c) == c.op = "status"

\* the task-creation requests, in the order sent
Creates == SelectSeq(calls, IsCreate)

\* the items of the parsed document, as <<block, item>> index pairs
Items ==
    UNION {{<<bi, ii>> : ii \in 1..Len(blocks[bi].items)} : bi \in 1..Len(blocks)}

\* the status-update requests sent for item p
StatusCallsFor(p) == {k \in 1..Len(calls) : IsStatus(calls[k]) /\ calls[k].for = p}

\* the answered creation request of element p of the document
CreatedAs(p) ==
    {calls[k].id : k \in {j \in 1..Len(calls) :
        IsCreate(calls[j]) /\ calls[j].for = p /\ calls[j].answer = "ok"}}

\* item p was checked in the source and a closed status is configured
Closes(p) == blocks[p[1]].items[p[2]].checked /\ CLOSED_STATUS # <<>>

\* the subtasks the task service created
Subtasks == {p \in Items : CreatedAs(p) # {}}

\* C6: a status update is sent for a subtask iff its item was checked and a
\* non-empty closed status is configured; it carries that status and the id
\* the subtask's creation returned; none is sent for a category task or the
\* root parent.
C6_StatusIffChecked ==
    /\ \A k \in 1..Len(calls) :
        IsStatus(calls[k]) =>
            /\ calls[k].for \in Subtasks
            /\ Closes(calls[k].for)
            /\ calls[k].status = CLOSED_STATUS
            /\ CreatedAs(calls[k].for) = {calls[k].task}
            /\ Cardinality(StatusCallsFor(calls[k].for)) = 1
    /\ \A k \in 1..Len(calls) :
        (IsCreate(calls[k]) /\ calls[k].for \in Subtasks /\ Closes(calls[k].for)) =>
            IF k < Len(calls)
            THEN IsStatus(calls[k + 1]) /\ calls[k + 1].for = calls[k].for
            ELSE pc = "status" /\ loc.sub_id = calls[k].id
    /\ pc = "done" =>
        \A p \in Subtasks : StatusCallsFor(p) # {} <=> Closes(p)

\* a finished run that sent a status update for a checked item and none for
\* an unchecked one, under a category whose own box was checked
C6_Witness ==
    /\ pc = "done"
    /\ CLOSED_STATUS # <<>>
    /\ \E p \in Subtasks : StatusCallsFor(p) # {}
    /\ \E p \in Subtasks : ~blocks[p[1]].items[p[2]].checked /\ StatusCallsFor(p) = {}
    /\ \E i \in 1..Len(src) : InBox(src[i]) = "x" /\ ~TwoLeadingSpaces(src[i])

\* C7: a failed status update is never fatal: the run warns and goes on.
C7_StatusFailureNotFatal ==
    \A k \in 1..Len(calls) :
        (IsStatus(calls[k]) /\ calls[k].answer # "ok") =>
            /\ \E w \in 1..Len(err) : err[w].task = calls[k].task
            /\ ~(k = Len(calls) /\ pc = "raised")

\* C8: a dry run sends nothing to the task service, neither a creation nor
\* a status update; it prints the actions instead.
C8_DryRunNoCalls ==
    args.dry_run =>
        /\ calls = <<>>
        /\ next_id = 1
        /\ err = <<>>
        /\ pc = "done" =>
            /\ Cardinality({k \in 1..Len(out) : out[k].line = "DRY create task"}) =
                   (IF args.root_parent # <<>> THEN 1 ELSE 0)
                   + Len(blocks) + Cardinality(Items)
            /\ Cardinality({k \in 1..Len(out) : out[k].line = "DRY set status"}) =
                   Cardinality({p \in Items : Closes(p)})

\* a finished dry run with a root parent and a checked item to close
C8_Witness ==
    /\ args.dry_run
    /\ pc = "done"
    /\ args.root_parent # <<>>
    /\ \E k \in 1..Len(out) : out[k].line = "DRY set status"
    /\ \E k \in 1..Len(out) : out[k].line = "DRY create task"

\* C9: with no category parsed the importer exits non-zero before any
\* creation or status update, the root parent's creation included.
C9_NoCategoriesAborts ==
    (pc # "main" /\ blocks = <<>>) =>
        /\ pc = "exit"
        /\ exitcode # 0 /\ exitcode # -1
        /\ calls = <<>>
        /\ out = <<>>

\* a run with a root parent configured, on a file of sub-item lines only
C9_Witness ==
    /\ pc = "exit"
    /\ src # <<>>
    /\ args.root_parent # <<>>
    /\ ~args.dry_run
    /\ exitcode = 1

\* the elements of the document in document order: the root parent if one
\* is configured, then each category followed by its items
Elements ==
    (IF args.root_parent # <<>> THEN {<<0, 0>>} ELSE {})
    \cup {<<bi, 0>> : bi \in 1..Len(blocks)} \cup Items

Before(p, q) == p[1] < q[1] \/ (p[1] = q[1] /\ p[2] < q[2])

\* the place of element p in document order
Place(p) == 1 + Cardinality({q \in Elements : Before(q, p)})

\* the name and the parent the creation of element p is to carry
NameOf(p) ==
    IF p[1] = 0 THEN args.root_parent
    ELSE IF p[2] = 0 THEN args.prefix \o blocks[p[1]].category
    ELSE blocks[p[1]].items[p[2]].text

ParentOf(p) ==
    IF p[1] = 0 THEN {None}
    ELSE IF p[2] = 0
         THEN (IF args.root_parent # <<>> THEN CreatedAs(<<0, 0>>) ELSE {None})
    ELSE CreatedAs(<<p[1], 0>>)

\* C10: creations are sent one at a time in document order: the root
\* parent first, then each category (prefix + title, under the root
\* parent's returned id if one is configured, else under none), each of its
\* subtasks after the category's creation returned and under the id it
\* returned, before the next category.
C10_DocumentOrder ==
    pc # "main" =>
        LET cs == Creates
        IN  /\ \A j \in 1..Len(cs) :
                /\ cs[j].for \in Elements
                /\ Place(cs[j].for) = j
                /\ cs[j].payload.name = NameOf(cs[j].for)
                /\ ParentOf(cs[j].for) = {cs[j].payload.parent}
                /\ j < Len(cs) => cs[j].answer = "ok"
            /\ (pc = "done" /\ ~args.dry_run) => Len(cs) = Cardinality(Elements)

\* a finished run that created a root parent and two categories, the first
\* with a subtask
C10_Witness ==
    /\ pc = "done"
    /\ ~args.dry_run
    /\ args.root_parent # <<>>
    /\ args.prefix # <<>>
    /\ Len(blocks) = 2
    /\ Len(blocks[1].items) >= 1
    /\ Len(Creates) = 4

====
